---- MODULE Spec2Model ----
(***************************************************************************)
(* Model of SEPCMaths.c: the two functions the extension module exports.   *)
(*                                                                         *)
(*   iterateRationalApproximation  (lines 8-42)  a mediant search, modelled *)
(*       as a state machine whose steps are the evaluations of the while   *)
(*       condition, of the for condition and of one loop body.             *)
(*   intSign                       (lines 47-56) a pure function, modelled *)
(*       on 32-bit two's complement words, bit by bit.                     *)
(*                                                                         *)
(* Numbers.  A C double is a rational number; it is written here as a     *)
(* pair <<n, d>> with d > 0 standing for n/d, and doubles are compared by  *)
(* cross multiplication.  mantissa and precision are multiples of          *)
(* 1 / 2^MantBits (every finite double is dyadic).  For the integers and   *)
(* doubles of this model the rounding of (double) a/b and of ab - mantissa *)
(* cannot change the outcome of a comparison of lines 23, 26, 27: two      *)
(* distinct values that are compared differ by at least                    *)
(* 1 / (b * 2^MantBits), many orders of magnitude above one unit in the    *)
(* last place, and rounding to nearest is monotone.  The comparisons are   *)
(* therefore evaluated exactly.                                            *)
(*                                                                         *)
(* The int of line 9 is a signed two's complement word.  Its width is      *)
(* IntBits here, a width small enough for the mediant additions to leave   *)
(* the range within a few steps.  An addition that leaves the range is     *)
(* undefined behaviour in C: the call then moves to pc = "ub", where the   *)
(* model stops following it and says nothing about what happens next.      *)
(***************************************************************************)
EXTENDS Integers, Sequences, FiniteSets, TLC

\* ------------------------------------------------------------------ bounds
\* width of the model's int
IntBits == 6
\* mantissa and precision are multiples of 1 / 2^MantBits
MantBits == 3
\* largest numerator and denominator passed in
MaxNum == 2
\* largest microIterations passed in
MaxMicro == 2

IntMax == 2^(IntBits - 1) - 1
IntMin == -(2^(IntBits - 1))
MantDen == 2^MantBits

\* -------------------------------------------------------- double arithmetic
\* A double is the pair <<n, d>>, the number n/d, with d > 0.
Abs(x) == IF x < 0 THEN -x ELSE x

\* x - y, fabs(x), x < y, x >= y, x == y on doubles
DSub(x, y) == <<x[1] * y[2] - y[1] * x[2], x[2] * y[2]>>
DFabs(x) == <<Abs(x[1]), x[2]>>
DLess(x, y) == x[1] * y[2] < y[1] * x[2]
DGeq(x, y) == x[1] * y[2] >= y[1] * x[2]
DEq(x, y) == x[1] * y[2] = y[1] * x[2]

\* (double) a/b, lines 21 and 38: a is converted, then divided by b (b > 0)
\* faulty variant: the division is done on the ints, (double) (a/b)
ToDoubleIntDivision(x, y) == <<x \div y, 1>>
ToDouble(x, y) == <<x, y>>

\* line 23: (double) fabs(ab - mantissa) >= precision
WhileCond(ab_, mantissa_, precision_) ==
    DGeq(DFabs(DSub(ab_, mantissa_)), precision_)

\* line 25: i < microIterations
\* faulty variants: i < microIterations - 1; a do-while loop; i <= microIterations
ForCondOffByOne(i_, micro_) == i_ < micro_ - 1
ForCondDoWhile(i_, micro_) == i_ = 0 \/ i_ < micro_
ForCondOneMore(i_, micro_) == i_ <= micro_
ForCond(i_, micro_) == i_ < micro_

\* line 26: ab == mantissa
\* faulty variant: the break is missing
ExactHitNever(ab_, mantissa_) == FALSE
ExactHit(ab_, mantissa_) == DEq(ab_, mantissa_)

\* line 27: ab < mantissa
\* faulty variant: the comparison is reversed
TooLowInverted(ab_, mantissa_) == DLess(mantissa_, ab_)
TooLow(ab_, mantissa_) == DLess(ab_, mantissa_)

\* the int additions of lines 30, 31, 35, 36
InInt(x) == IntMin <= x /\ x <= IntMax
\* faulty variants: the addition is missing; -= for +=
IntAddKeep(x, y) == x
IntSub(x, y) == x - y
IntAdd(x, y) == x + y

\* ------------------------------------------------------------------- state
VARIABLES
    args,       \* the arguments of the call, as parsed on line 13
    a, b, lowerA, lowerB, upperA, upperB,   \* the ints of line 9
    ab,         \* the register double of line 21
    i,          \* the register int of line 22
    pc,         \* "while" | "for" | "return" | "done" | "ub" | "idle"
    result,     \* the tuple built on line 41, <<>> before
    steps,      \* history: mediant steps taken so far
    sinceOk,    \* history: steps taken since the first candidate within
                \* tolerance, -1 while there was none
    sinceFail,  \* history: steps taken since the last candidate that was
                \* not within tolerance
    num, zero, zeroGiven,   \* intSign: line 48 and whether zero was passed
    signPc,     \* "call" | "parsed" | "done" | "idle"
    signResult  \* the PyLong of line 55, <<>> before

approxVars == <<args, a, b, lowerA, lowerB, upperA, upperB, ab, i, pc, result,
                steps, sinceOk, sinceFail>>
signVars == <<num, zero, zeroGiven, signPc, signResult>>
vars == <<approxVars, signVars>>

\* ------------------------------------------------------------ the inputs
CandidateNums == 0 .. MaxNum
Denominators == 1 .. MaxNum
\* the bounds passed in: numerator and denominator
LowerBounds == {<<0, 1>>, <<1, 2>>}
UpperBounds == {<<1, 2>>, <<1, 1>>, <<2, 1>>, <<IntMax, 1>>}
Mantissas == {<<n, MantDen>> : n \in 0 .. (MantDen + 2)}
Precisions == {<<n, MantDen>> : n \in 0 .. 2}
MicroIterations == -1 .. MaxMicro

NoResult == <<>>

\* the candidate x/y is within the tolerance of the call
Within(x, y) == ~WhileCond(ToDouble(x, y), args.mantissa, args.precision)

NoArgs == [a |-> 0, b |-> 1, lowerA |-> 0, lowerB |-> 1,
           upperA |-> 0, upperB |-> 1, mantissa |-> <<0, 1>>,
           precision |-> <<0, 1>>, microIterations |-> 0]

\* before the call: nothing is parsed yet
Init ==
    /\ args = NoArgs
    /\ a = 0 /\ b = 1
    /\ lowerA = 0 /\ lowerB = 1
    /\ upperA = 0 /\ upperB = 1
    /\ ab = <<0, 1>>
    /\ i = 0
    /\ pc = "entry"
    /\ result = NoResult
    /\ steps = 0
    /\ sinceOk = -1
    /\ sinceFail = 0
    /\ num = 0 /\ zero = 0 /\ zeroGiven = FALSE
    /\ signPc = "idle" /\ signResult = NoResult

\* line 13, PyArg_ParseTuple "iiiiiiddi", and line 21
ParseArgs ==
    /\ pc = "entry"
    /\ \E lo \in LowerBounds, up \in UpperBounds :
          args' \in [a : CandidateNums, b : Denominators,
                     lowerA : {lo[1]}, lowerB : {lo[2]},
                     upperA : {up[1]}, upperB : {up[2]},
                     mantissa : Mantissas, precision : Precisions,
                     microIterations : MicroIterations]
    /\ a' = args'.a /\ b' = args'.b
    /\ lowerA' = args'.lowerA /\ lowerB' = args'.lowerB
    /\ upperA' = args'.upperA /\ upperB' = args'.upperB
    /\ ab' = ToDouble(a', b')
    /\ pc' = "while"
    /\ sinceOk' = IF ~WhileCond(ab', args'.mantissa, args'.precision)
                  THEN 0 ELSE -1
    /\ UNCHANGED <<i, result, steps, sinceFail, signVars>>

\* ------------------------------------------------------------- the loops
\* line 23, condition true: the for loop of line 25 starts with i = 0
EnterBatch ==
    /\ pc = "while"
    /\ WhileCond(ab, args.mantissa, args.precision)
    /\ i' = 0
    /\ pc' = "for"
    /\ UNCHANGED <<args, a, b, lowerA, lowerB, upperA, upperB, ab, result,
                   steps, sinceOk, sinceFail,
                   signVars>>

\* line 23, condition false: control reaches line 41
LeaveWhile ==
    /\ pc = "while"
    /\ ~WhileCond(ab, args.mantissa, args.precision)
    /\ pc' = "return"
    /\ UNCHANGED <<args, a, b, lowerA, lowerB, upperA, upperB, ab, i, result,
                   steps, sinceOk, sinceFail,
                   signVars>>

\* line 41: Py_BuildValue("(ii)", a, b)
Return ==
    /\ pc = "return"
    /\ result' = <<a, b>>
    /\ pc' = "done"
    /\ UNCHANGED <<args, a, b, lowerA, lowerB, upperA, upperB, ab, i,
                   steps, sinceOk, sinceFail,
                   signVars>>

\* line 25, i < microIterations false: back to line 23
ForExit ==
    /\ pc = "for"
    /\ ~ForCond(i, args.microIterations)
    /\ pc' = "while"
    /\ UNCHANGED <<args, a, b, lowerA, lowerB, upperA, upperB, ab, i, result,
                   steps, sinceOk, sinceFail,
                   signVars>>

\* line 26: break
Break ==
    /\ pc = "for"
    /\ ForCond(i, args.microIterations)
    /\ ExactHit(ab, args.mantissa)
    /\ pc' = "while"
    /\ UNCHANGED <<args, a, b, lowerA, lowerB, upperA, upperB, ab, i, result,
                   steps, sinceOk, sinceFail,
                   signVars>>

\* the history variables after a step to the candidate x/y
History(x, y) ==
    /\ steps' = steps + 1
    /\ sinceOk' = IF sinceOk >= 0 THEN sinceOk + 1
                  ELSE IF Within(x, y) THEN 0 ELSE -1
    /\ sinceFail' = IF Within(x, y) THEN sinceFail + 1 ELSE 0

\* lines 27-31 and 38, then i++ of line 25
StepLower ==
    /\ pc = "for"
    /\ ForCond(i, args.microIterations)
    /\ ~ExactHit(ab, args.mantissa)
    /\ TooLow(ab, args.mantissa)
    /\ InInt(a + upperA) /\ InInt(b + upperB)
    /\ lowerA' = a
    /\ lowerB' = b
    /\ a' = IntAdd(a, upperA)
    /\ b' = IntAdd(b, upperB)
    /\ ab' = ToDouble(a', b')
    /\ i' = i + 1
    /\ History(a', b')
    /\ UNCHANGED <<args, upperA, upperB, pc, result, signVars>>

\* lines 32-36 and 38, then i++ of line 25
StepUpper ==
    /\ pc = "for"
    /\ ForCond(i, args.microIterations)
    /\ ~ExactHit(ab, args.mantissa)
    /\ ~TooLow(ab, args.mantissa)
    /\ InInt(a + lowerA) /\ InInt(b + lowerB)
    /\ upperA' = a
    /\ upperB' = b
    /\ a' = IntAdd(a, lowerA)
    /\ b' = IntAdd(b, lowerB)
    /\ ab' = ToDouble(a', b')
    /\ i' = i + 1
    /\ History(a', b')
    /\ UNCHANGED <<args, lowerA, lowerB, pc, result, signVars>>

\* lines 30, 31: a += upperA or b += upperB leaves the range of int
OverflowLower ==
    /\ pc = "for"
    /\ ForCond(i, args.microIterations)
    /\ ~ExactHit(ab, args.mantissa)
    /\ TooLow(ab, args.mantissa)
    /\ ~(InInt(a + upperA) /\ InInt(b + upperB))
    /\ lowerA' = a
    /\ lowerB' = b
    /\ pc' = "ub"
    /\ UNCHANGED <<args, a, b, upperA, upperB, ab, i, result,
                   steps, sinceOk, sinceFail,
                   signVars>>

\* lines 35, 36: a += lowerA or b += lowerB leaves the range of int
OverflowUpper ==
    /\ pc = "for"
    /\ ForCond(i, args.microIterations)
    /\ ~ExactHit(ab, args.mantissa)
    /\ ~TooLow(ab, args.mantissa)
    /\ ~(InInt(a + lowerA) /\ InInt(b + lowerB))
    /\ upperA' = a
    /\ upperB' = b
    /\ pc' = "ub"
    /\ UNCHANGED <<args, a, b, lowerA, lowerB, ab, i, result,
                   steps, sinceOk, sinceFail,
                   signVars>>

Next ==
    \/ ParseArgs
    \/ EnterBatch
    \/ LeaveWhile
    \/ Return
    \/ ForExit
    \/ Break
    \/ StepLower
    \/ StepUpper
    \/ OverflowLower
    \/ OverflowUpper

Spec == Init /\ [][Next]_vars

\* a running call keeps executing: the next statement is always taken
LiveSpec == Spec /\ WF_vars(Next)

\* ----------------------------------------------------------------- intSign
\* the int of line 48 is a 32-bit two's complement word
WordBits == 32
\* the shift count of line 55
ShiftCount == 31
\* the literal of line 55
OrMask == 1

TopBit == WordBits - 1
Half == 2^(WordBits - 2)
WordMin == (-Half) - Half
WordMax == (Half - 1) + Half

\* the bits of the word x, bit 0 first
Bits(x) ==
    [k \in 0 .. TopBit |->
        IF k = TopBit THEN (IF x < 0 THEN 1 ELSE 0) ELSE (x \div 2^k) % 2]

RECURSIVE LowValue(_, _)
LowValue(bs, k) == IF k < 0 THEN 0 ELSE bs[k] * 2^k + LowValue(bs, k - 1)

\* the int whose bits are bs
Word(bs) == (LowValue(bs, TopBit - 1) - bs[TopBit] * Half) - bs[TopBit] * Half

\* x & y and x | y
BitAnd(x, y) == Word([k \in 0 .. TopBit |-> Bits(x)[k] * Bits(y)[k]])
BitOr(x, y) ==
    Word([k \in 0 .. TopBit |-> IF Bits(x)[k] + Bits(y)[k] > 0 THEN 1 ELSE 0])

\* faulty variant of x >> n: an unsigned shift, zeros are shifted in
ShiftRightLogical(x, n) ==
    Word([k \in 0 .. TopBit |-> IF k + n <= TopBit THEN Bits(x)[k + n] ELSE 0])
\* x >> n on a signed int: the sign bit is shifted in
ShiftRight(x, n) ==
    Word([k \in 0 .. TopBit |->
             IF k + n <= TopBit THEN Bits(x)[k + n] ELSE Bits(x)[TopBit]])

\* !x
LogicalNot(x) == IF x = 0 THEN 1 ELSE 0

\* line 55: !(num & num) ? zero : (num >> 31) | 1
SignExpr(num_, zero_) ==
    IF LogicalNot(BitAnd(num_, num_)) # 0
    THEN zero_
    ELSE BitOr(ShiftRight(num_, ShiftCount), OrMask)

\* the words and the values of zero passed to intSign
SignNums ==
    {WordMin, WordMin + 1, -Half - 1, -Half, -65536, -5, -2, -1, 0,
     1, 2, 5, 65535, Half, Half + 1, WordMax - 1, WordMax}
SignZeros == {-1, 0, 7}

SignInit ==
    /\ args = NoArgs
    /\ a = 0 /\ b = 1
    /\ lowerA = 0 /\ lowerB = 1
    /\ upperA = 0 /\ upperB = 1
    /\ ab = <<0, 1>>
    /\ i = 0
    /\ pc = "idle"
    /\ result = NoResult
    /\ steps = 0
    /\ sinceOk = -1
    /\ sinceFail = 0
    /\ num = 0 /\ zero = 0 /\ zeroGiven = FALSE
    /\ signPc = "entry" /\ signResult = NoResult

\* lines 48-51: zero = 0 unless PyArg_ParseTupleAndKeywords "i|i" stores one
SignParse ==
    /\ signPc = "entry"
    /\ num' \in SignNums
    /\ zeroGiven' \in BOOLEAN
    /\ zero' \in IF zeroGiven' THEN SignZeros ELSE {0}
    /\ signPc' = "parsed"
    /\ UNCHANGED <<signResult, approxVars>>

\* line 55
SignReturn ==
    /\ signPc = "parsed"
    /\ signResult' = SignExpr(num, zero)
    /\ signPc' = "done"
    /\ UNCHANGED <<num, zero, zeroGiven, approxVars>>

SignNext ==
    \/ SignParse
    \/ SignReturn

SignSpec == SignInit /\ [][SignNext]_vars


\* ------------------------------------------------- properties of the search
Zero == <<0, 1>>
Candidate == <<a, b>>
Lower == <<lowerA, lowerB>>
Upper == <<upperA, upperB>>
Called == pc \notin {"entry", "idle"}

\* lowerA/lowerB <= mantissa <= upperA/upperB at call entry
EnclosedAtEntry ==
    /\ DGeq(args.mantissa, <<args.lowerA, args.lowerB>>)
    /\ DGeq(<<args.upperA, args.upperB>>, args.mantissa)

\* the arguments meet the contract of the call
ValidArgs ==
    /\ Called
    /\ DLess(Zero, args.precision)
    /\ args.microIterations >= 1
    /\ args.b > 0 /\ args.lowerB > 0 /\ args.upperB > 0
    /\ EnclosedAtEntry

\* |x - mantissa| < precision, in exact arithmetic
InTolerance(x) == DLess(DFabs(DSub(x, args.mantissa)), args.precision)

\* this step is a mediant step (lines 27-38 ran to the end)
MediantStep == steps' = steps + 1

\* upper.value - lower.value
Width == DSub(Upper, Lower)

C2_Terminates == ValidArgs ~> (pc = "done" \/ pc = "ub")

\* a valid call that returned after several mediant steps
C2_Witness == ValidArgs /\ pc = "done" /\ steps >= 4

\* C4 as stated: once a/b equals mantissa exactly, no further mediant step
\* is taken and the call returns (a, b), for every precision.
C4_ExactHitReturnsAlways ==
    [][(Called /\ DEq(Candidate, args.mantissa))
         => /\ a' = a /\ b' = b
            /\ (pc = "while" => pc' = "return")
            /\ (pc = "for" => pc' = "while")
            /\ (pc = "return" => result' = <<a, b>>)]_vars

\* C4 amended: once a/b equals mantissa exactly, no further mediant step is
\* taken, for every precision; and with precision > 0 the next test of the
\* while condition leads to the return of (a, b).
C4_ExactHitReturns ==
    [][(Called /\ DEq(Candidate, args.mantissa))
         => /\ a' = a /\ b' = b
            /\ Lower' = Lower /\ Upper' = Upper
            /\ ((pc = "while" /\ DLess(Zero, args.precision))
                  => pc' = "return")
            /\ (pc = "for" => pc' = "while")
            /\ (pc = "return" => result' = <<a, b>>)]_vars

\* an exact hit reached by mediant steps and returned
C4_Witness ==
    /\ pc = "done" /\ steps >= 2
    /\ DEq(<<result[1], result[2]>>, args.mantissa)
    /\ DLess(Zero, args.precision)

\* C5 as stated: a valid call returns after at most microIterations mediant
\* steps beyond the first candidate within tolerance.
C5_OvershootBoundedFromFirstOk ==
    ValidArgs => sinceOk <= args.microIterations

\* C5 amended: a valid call returns after at most microIterations mediant
\* steps beyond the last candidate that is not within tolerance.
C5_OvershootBoundedFromLastFail ==
    ValidArgs => sinceFail <= args.microIterations

\* a valid call that returned a full batch after the last failing candidate
C5_Witness ==
    /\ ValidArgs /\ pc = "done"
    /\ args.microIterations = 2 /\ sinceFail = 2 /\ steps > sinceFail

\* C6 as stated: with bounds enclosing mantissa, every mediant step strictly
\* shrinks upper - lower and leaves the candidate between the new bounds.
C6_EveryStepShrinks ==
    [][(Called /\ EnclosedAtEntry /\ MediantStep)
         => /\ DLess(Width', Width)
            /\ DLess(Lower', Candidate') /\ DLess(Candidate', Upper')]_vars

\* C6 amended: with bounds enclosing mantissa, every mediant step leaves the
\* candidate strictly between the new bounds; every step after the first
\* strictly shrinks upper - lower, and the first one does when the initial
\* candidate lies strictly between the initial bounds.
C6_LaterStepsShrink ==
    [][(Called /\ EnclosedAtEntry /\ MediantStep)
         => /\ DLess(Lower', Candidate') /\ DLess(Candidate', Upper')
            /\ (steps >= 1 \/ (DLess(Lower, Candidate)
                               /\ DLess(Candidate, Upper)))
                  => DLess(Width', Width)]_vars

\* three steps of a call whose initial candidate was its lower bound
C6_Witness ==
    /\ Called /\ EnclosedAtEntry /\ steps >= 3
    /\ args.a = args.lowerA /\ args.b = args.lowerB

\* C7: if the bounds enclose mantissa at call entry they enclose it in every
\* state of the call, whatever the initial candidate.
C7_BoundsEnclose ==
    (Called /\ EnclosedAtEntry)
        => DGeq(args.mantissa, Lower) /\ DGeq(Upper, args.mantissa)

\* both bounds were overwritten, by a candidate outside the initial bounds
C7_Witness ==
    /\ Called /\ EnclosedAtEntry /\ steps >= 3
    /\ Lower # <<args.lowerA, args.lowerB>>
    /\ Upper # <<args.upperA, args.upperB>>
    /\ DLess(<<args.upperA, args.upperB>>, <<args.a, args.b>>)

\* C8: with microIterations <= 0 no mediant step is ever taken; the call
\* returns (a, b) unchanged when the initial candidate is within tolerance
\* and never returns otherwise.
C8_NoProgress ==
    (Called /\ args.microIterations <= 0)
        => /\ steps = 0
           /\ a = args.a /\ b = args.b
           /\ Lower = <<args.lowerA, args.lowerB>>
           /\ Upper = <<args.upperA, args.upperB>>
           /\ IF InTolerance(<<args.a, args.b>>)
              THEN /\ pc \in {"while", "return", "done"}
                   /\ (pc = "done" => result = <<args.a, args.b>>)
              ELSE pc \in {"while", "for"}

\* the for loop was entered with microIterations <= 0
C8_Witness == args.microIterations <= 0 /\ pc = "for"

\* C9 as stated: in a valid call no mediant addition leaves the range of int.
C9_NoOverflow == ValidArgs => pc # "ub"

\* C10 as stated: after every mediant step the candidate is the componentwise
\* sum of the bounds, and exactly one of the two bounds changed in the step.
C10_MediantExactlyOne ==
    [][(Called /\ MediantStep)
         => /\ a' = lowerA' + upperA' /\ b' = lowerB' + upperB'
            /\ (Lower' # Lower) # (Upper' # Upper)]_vars

\* C10 amended: after every mediant step the candidate is the componentwise
\* sum of the bounds; one bound is unchanged and the other is the previous
\* candidate, which differs from the bound it replaces in every step after
\* the first.
C10_MediantOneOverwritten ==
    [][(Called /\ MediantStep)
         => /\ a' = lowerA' + upperA' /\ b' = lowerB' + upperB'
            /\ \/ Lower' = Candidate /\ Upper' = Upper
               \/ Upper' = Candidate /\ Lower' = Lower
            /\ steps >= 1 => ((Lower' # Lower) # (Upper' # Upper))]_vars

\* steps of both branches were taken from a candidate unrelated to the bounds
C10_Witness ==
    /\ Called /\ steps >= 3
    /\ Lower # <<args.lowerA, args.lowerB>>
    /\ Upper # <<args.upperA, args.upperB>>
    /\ args.a # args.lowerA + args.upperA

\* ------------------------------------------------- properties of intSign
\* C3: intSign returns zero when num == 0 (0 when zero is omitted), +1 when
\* num > 0 and -1 when num < 0, for every 32-bit num including the minimum;
\* so (num >> 31) | 1 agrees with num > 0 ? 1 : -1 on every nonzero num.
C3_SignByComparison ==
    signPc = "done"
        => /\ signResult = IF num = 0 THEN zero
                           ELSE IF num > 0 THEN 1 ELSE -1
           /\ (~zeroGiven /\ num = 0) => signResult = 0

\* the sign of the minimum 32-bit integer was returned
C3_Witness == signPc = "done" /\ num = WordMin /\ signResult = -1

====
